---------------------------- MODULE Spec2Model ----------------------------
(***************************************************************************)
(* Model of grout's grcli manual-page renderer (src/cli/man_commands.c and *)
(* src/cli/man_main.c).                                                    *)
(*                                                                         *)
(* C strings are sequences of one-character strings, so that strchr,       *)
(* strcmp and toupper are computed and not assumed.  The NULL pointer is   *)
(* the distinguished sequence NULL, which is no sequence of single         *)
(* characters.  Everything written to stdout / stderr is kept as a         *)
(* sequence of items, one per printf / putchar loop: the format string     *)
(* and the string arguments it was given.                                  *)
(***************************************************************************)
EXTENDS Integers, Sequences, FiniteSets, TLC

(***************************************************************************)
(* Bounds of the model.                                                    *)
(***************************************************************************)
\* longest top-level forest handed to print_man_page
MaxTop == 2
\* most variants under the Alternation handed to print_command_details
MaxVariants == 2
\* the allocation that fails is one of the first MaxAllocs (0: none fails)
MaxAllocs == 2
\* most option nodes under the options tree of the global page
MaxOptions == 2
\* most children of the node handed to print_node_synopsis
MaxKids == 2

(***************************************************************************)
(* Strings.                                                                *)
(***************************************************************************)
NULL == <<"NULL">>
SP == " "
\* libecoli's "no identifier" sentinel, compared with strcmp
EC_NO_ID == <<"n", "o", "-", "i", "d">>

route == <<"r", "o", "u", "t", "e">>
xroute == <<"x">> \o route
route_add == route \o <<SP, "a", "d", "d">>
ping == <<"p", "i", "n", "g">>
address == <<"a", "d", "d", "r", "e", "s", "s">>
interface == <<"i", "n", "t", "e", "r", "f", "a", "c", "e">>
nexthop == <<"n", "e", "x", "t", "h", "o", "p">>
IFACE == <<"I", "F", "A", "C", "E">>
NAME == <<"N", "A", "M", "E">>
VRF == <<"V", "R", "F">>
NH == <<"N", "H">>
NH_ID == <<"N", "H", "_", "I", "D">>
SEGLIST == <<"S", "E", "G", "L", "I", "S", "T">>
ADDR == <<"A", "D", "D", "R">>
IP == <<"I", "P">>
DEST == <<"D", "E", "S", "T">>
COUNT == <<"C", "O", "U", "N", "T">>
ping_IFACE == ping \o <<SP>> \o IFACE
help_h == <<"h">>
help_g == <<"g">>

\* strchr(s, ' '): index of the first space, 0 when there is none
strchr_space(s) ==
    IF \E k \in 1..Len(s) : s[k] = SP
    THEN CHOOSE k \in 1..Len(s) : s[k] = SP /\ \A j \in 1..(k - 1) : s[j] # SP
    ELSE 0

\* strcmp(a, b) == 0
streq(a, b) == a = b

toupper_char(c) ==
    CASE c = "s" -> "S"
      [] c = "o" -> "O"
      [] c = "c" -> "C"
      [] c = "k" -> "K"
      [] OTHER -> c

toupper_str(s) == [k \in 1..Len(s) |-> toupper_char(s[k])]

(***************************************************************************)
(* Grammar nodes (struct ec_node as read through libecoli's accessors).    *)
(* type is the type-name string ec_node_type(node)->name; a child slot     *)
(* whose ec_node_get_child() fails is the node BadRef.                     *)
(***************************************************************************)
Node(type, id, help, desc, kids) ==
    [type |-> type, id |-> id, help |-> help, desc |-> desc, kids |-> kids]

BadRef == Node("<badref>", NULL, NULL, NULL, <<>>)

ec_node_get_children_count(node) == Len(node.kids)

\* ec_node_get_child(node, i, &child, &refs) >= 0, i counted from 1
ec_node_get_child_ok(node, i) ==
    /\ i >= 1
    /\ i <= Len(node.kids)
    /\ node.kids[i] # BadRef

get_node_type(node) ==
    CASE node.type = "str" -> "NODE_TYPE_STR"
      [] node.type = "uint" -> "NODE_TYPE_UINT"
      [] node.type = "int" -> "NODE_TYPE_INT"
      [] node.type = "dyn" -> "NODE_TYPE_DYN"
      [] node.type = "re" -> "NODE_TYPE_RE"
      [] node.type = "or" -> "NODE_TYPE_OR"
      [] node.type = "seq" -> "NODE_TYPE_SEQ"
      [] node.type = "cmd" -> "NODE_TYPE_CMD"
      [] node.type = "option" -> "NODE_TYPE_OPTION"
      [] node.type = "many" -> "NODE_TYPE_MANY"
      [] node.type = "subset" -> "NODE_TYPE_SUBSET"
      [] OTHER -> "NODE_TYPE_UNKNOWN"

\* one printf: the format string and its string arguments
Printf(f, a) == [f |-> f, a |-> a]

has_real_id(id) == id # NULL /\ ~streq(id, EC_NO_ID)


(***************************************************************************)
(* man_commands.c: the argument collector.                                 *)
(***************************************************************************)
ENOMEM == 12

RECURSIVE find_arg_from(_, _, _)
find_arg_from(args, i, id) ==
    IF i > Len(args) THEN 0
    ELSE IF streq(args[i].id, id) THEN 1
    ELSE find_arg_from(args, i + 1, id)

\* faulty variant: only the last entry is compared
find_arg_last_only(args, id) ==
    IF Len(args) > 0 /\ streq(args[Len(args)].id, id) THEN 1 ELSE 0

find_arg(args, id) == find_arg_from(args, 1, id)

argument_types == <<"uint", "int", "dyn", "re">>

is_valid_type(type, types) == \E k \in 1..Len(types) : type = types[k]

\* realloc() of the entry list: the fail_at-th allocation of the run fails
alloc_fails(st) == st.fail_at # 0 /\ st.nalloc + 1 = st.fail_at

\* the test of lines 74-81: the node gets an entry of its own
is_new_argument(node, args) ==
    /\ has_real_id(node.id)
    /\ is_valid_type(node.type, argument_types)
    /\ find_arg(args, node.id) = 0

\* st = [args, nalloc, fail_at, rc]; rc < 0 once an allocation has failed
RECURSIVE collect_arguments(_, _)
RECURSIVE collect_children(_, _, _)
collect_children(node, i, st) ==
    IF i > ec_node_get_children_count(node) THEN [st EXCEPT !.rc = 0]
    ELSE IF ~ec_node_get_child_ok(node, i) THEN collect_children(node, i + 1, st)
    ELSE LET r == collect_arguments(node.kids[i], st)
         IN  IF r.rc < 0 THEN r ELSE collect_children(node, i + 1, r)

collect_arguments(node, st) ==
    IF ~is_new_argument(node, st.args) THEN collect_children(node, 1, st)
    ELSE IF alloc_fails(st)
    THEN [st EXCEPT !.nalloc = @ + 1, !.rc = -ENOMEM]
    ELSE collect_children(
             node, 1,
             [st EXCEPT !.args = Append(@, [id |-> node.id, node |-> node]),
                        !.nalloc = @ + 1])

(***************************************************************************)
(* man_commands.c: the synopsis renderer.                                  *)
(***************************************************************************)
RECURSIVE print_node_synopsis(_, _)
RECURSIVE synopsis_or_children(_, _, _)
RECURSIVE synopsis_children(_, _, _)
RECURSIVE synopsis_subset_children(_, _, _)

\* the loop of NODE_TYPE_OR, lines 129-137
synopsis_or_children(node, i, depth) ==
    IF i > ec_node_get_children_count(node) THEN <<>>
    ELSE IF ~ec_node_get_child_ok(node, i)
    THEN synopsis_or_children(node, i + 1, depth)
    ELSE (IF i > 1 THEN <<Printf(" |", <<>>)>> ELSE <<>>)
         \o print_node_synopsis(node.kids[i], depth + 1)
         \o synopsis_or_children(node, i + 1, depth)

\* the loops of NODE_TYPE_SEQ / CMD / OPTION / MANY
synopsis_children(node, i, depth) ==
    IF i > ec_node_get_children_count(node) THEN <<>>
    ELSE IF ~ec_node_get_child_ok(node, i)
    THEN synopsis_children(node, i + 1, depth)
    ELSE print_node_synopsis(node.kids[i], depth + 1)
         \o synopsis_children(node, i + 1, depth)

\* the loop of NODE_TYPE_SUBSET
synopsis_subset_children(node, i, depth) ==
    IF i > ec_node_get_children_count(node) THEN <<>>
    ELSE IF ~ec_node_get_child_ok(node, i)
    THEN synopsis_subset_children(node, i + 1, depth)
    ELSE <<Printf(" [", <<>>)>>
         \o print_node_synopsis(node.kids[i], depth + 1)
         \o <<Printf(" ]", <<>>)>>
         \o synopsis_subset_children(node, i + 1, depth)

print_node_synopsis(node, depth) ==
    LET type == get_node_type(node)
        id == node.id
        count == ec_node_get_children_count(node)
    IN  CASE type = "NODE_TYPE_STR" ->
               IF node.desc # NULL THEN <<Printf(" %s", <<node.desc>>)>> ELSE <<>>
          [] type \in {"NODE_TYPE_UINT", "NODE_TYPE_INT"} ->
               <<Printf(" _%s_", <<IF has_real_id(id) THEN id ELSE <<"N", "U", "M">> >>)>>
          [] type \in {"NODE_TYPE_DYN", "NODE_TYPE_RE"} ->
               <<Printf(" _%s_", <<IF has_real_id(id) THEN id ELSE <<"A", "R", "G">> >>)>>
          [] type = "NODE_TYPE_OR" ->
               IF count > 0
               THEN <<Printf(" (", <<>>)>> \o synopsis_or_children(node, 1, depth)
                    \o <<Printf(" )", <<>>)>>
               ELSE <<>>
          [] type \in {"NODE_TYPE_SEQ", "NODE_TYPE_CMD"} ->
               synopsis_children(node, 1, depth)
          [] type \in {"NODE_TYPE_OPTION", "NODE_TYPE_MANY"} ->
               IF count > 0
               THEN <<Printf(" [", <<>>)>> \o synopsis_children(node, 1, depth)
                    \o <<Printf(" ]", <<>>)>>
               ELSE <<>>
          [] type = "NODE_TYPE_SUBSET" -> synopsis_subset_children(node, 1, depth)
          [] OTHER -> <<>>

(***************************************************************************)
(* man_commands.c: the per-command page.                                   *)
(***************************************************************************)
print_argument_help(node) ==
    LET type == get_node_type(node)
    IN  <<Printf("#### _%s_\n\n", <<node.id>>)>>
        \o (IF node.help # NULL THEN <<Printf("%s\n\n", <<node.help>>)>>
            ELSE CASE type = "NODE_TYPE_UINT" -> <<Printf("Unsigned integer.\n\n", <<>>)>>
                   [] type = "NODE_TYPE_INT" -> <<Printf("Integer.\n\n", <<>>)>>
                   [] type = "NODE_TYPE_STR" -> <<Printf("String.\n\n", <<>>)>>
                   [] type = "NODE_TYPE_DYN" -> <<Printf("Dynamic value.\n\n", <<>>)>>
                   [] OTHER -> <<>>)

RECURSIVE get_command_help_from(_, _)
get_command_help_from(or_node, i) ==
    IF i > ec_node_get_children_count(or_node) THEN NULL
    ELSE IF ~ec_node_get_child_ok(or_node, i) THEN get_command_help_from(or_node, i + 1)
    ELSE IF or_node.kids[i].help # NULL THEN or_node.kids[i].help
    ELSE get_command_help_from(or_node, i + 1)

get_command_help(or_node) == get_command_help_from(or_node, 1)

\* the help printed under one variant's usage line, lines 217-226
variant_help(child_node) ==
    IF get_node_type(child_node) = "NODE_TYPE_SEQ"
    THEN IF ec_node_get_children_count(child_node) >= 2
            /\ ec_node_get_child_ok(child_node, 1)
         THEN child_node.kids[1].help
         ELSE NULL
    ELSE child_node.help

\* the SYNOPSIS loop, lines 209-236
RECURSIVE synopsis_lines(_, _, _)
synopsis_lines(ctx_name, or_node, i) ==
    IF i > ec_node_get_children_count(or_node) THEN <<>>
    ELSE IF ~ec_node_get_child_ok(or_node, i) THEN synopsis_lines(ctx_name, or_node, i + 1)
    ELSE LET child_node == or_node.kids[i]
             child_help == variant_help(child_node)
         IN  <<Printf("**%s** ", <<ctx_name>>)>>
             \o print_node_synopsis(child_node, 0)
             \o <<Printf("\n", <<>>)>>
             \o (IF child_help # NULL THEN <<Printf("    %s\n", <<child_help>>)>> ELSE <<>>)
             \o <<Printf("\n", <<>>)>>
             \o synopsis_lines(ctx_name, or_node, i + 1)

\* the collection loop, lines 243-254
RECURSIVE collect_variants(_, _, _)
collect_variants(or_node, i, st) ==
    IF i > ec_node_get_children_count(or_node) THEN st
    ELSE IF ~ec_node_get_child_ok(or_node, i) THEN collect_variants(or_node, i + 1, st)
    ELSE LET r == collect_arguments(or_node.kids[i], st)
         IN  IF r.rc < 0 THEN r ELSE collect_variants(or_node, i + 1, r)

\* the classification loop, lines 256-271
no_flags == [has_iface |-> 0, has_vrf |-> 0, has_nexthop |-> 0, has_address |-> 0]

RECURSIVE classify_arguments(_, _, _)
classify_arguments(args, i, flags) ==
    IF i > Len(args) THEN flags
    ELSE LET arg_id == args[i].id
             next == IF streq(arg_id, IFACE) \/ streq(arg_id, NAME)
                     THEN [flags EXCEPT !.has_iface = 1]
                     ELSE IF streq(arg_id, VRF)
                     THEN [flags EXCEPT !.has_vrf = 1]
                     ELSE IF streq(arg_id, NH) \/ streq(arg_id, NH_ID)
                             \/ streq(arg_id, SEGLIST)
                     THEN [flags EXCEPT !.has_nexthop = 1]
                     ELSE IF streq(arg_id, ADDR) \/ streq(arg_id, IP)
                             \/ streq(arg_id, DEST)
                     THEN [flags EXCEPT !.has_address = 1]
                     ELSE flags
         IN  classify_arguments(args, i + 1, next)

RECURSIVE arguments_help(_, _)
arguments_help(args, i) ==
    IF i > Len(args) THEN <<>>
    ELSE print_argument_help(args[i].node) \o arguments_help(args, i + 1)

\* faulty variant: a page may refer to itself
print_see_also_self(ctx_name, flags) ==
    <<Printf("# SEE ALSO\n\n", <<>>), Printf("**grcli**(1)", <<>>)>>
    \o (IF flags.has_iface # 0 THEN <<Printf(", **grcli-interface**(1)", <<>>)>> ELSE <<>>)
    \o (IF flags.has_address # 0 THEN <<Printf(", **grcli-address**(1)", <<>>)>> ELSE <<>>)
    \o (IF flags.has_nexthop # 0 THEN <<Printf(", **grcli-nexthop**(1)", <<>>)>> ELSE <<>>)
    \o (IF flags.has_vrf # 0 THEN <<Printf(", **grcli-route**(1)", <<>>)>> ELSE <<>>)
    \o <<Printf("\n", <<>>)>>

\* the SEE ALSO section, lines 278-290
print_see_also(ctx_name, flags) ==
    <<Printf("# SEE ALSO\n\n", <<>>), Printf("**grcli**(1)", <<>>)>>
    \o (IF flags.has_iface # 0 /\ ~streq(ctx_name, interface)
        THEN <<Printf(", **grcli-interface**(1)", <<>>)>> ELSE <<>>)
    \o (IF flags.has_address # 0 /\ ~streq(ctx_name, address)
        THEN <<Printf(", **grcli-address**(1)", <<>>)>> ELSE <<>>)
    \o (IF flags.has_nexthop # 0 /\ ~streq(ctx_name, nexthop)
        THEN <<Printf(", **grcli-nexthop**(1)", <<>>)>> ELSE <<>>)
    \o (IF flags.has_vrf # 0 /\ ~streq(ctx_name, route)
        THEN <<Printf(", **grcli-route**(1)", <<>>)>> ELSE <<>>)
    \o <<Printf("\n", <<>>)>>

\* result: what was printed, the return code, the entry list as it stood
\* when collection ended (before free), the flags, the allocations made
print_command_details(ctx_name, or_node, with_header, fail_at, nalloc) ==
    LET ctx_help == get_command_help(or_node)
        head == IF with_header # 0
                THEN <<Printf("# %s\n\n", <<ctx_name>>)>>
                     \o (IF ctx_help # NULL THEN <<Printf("%s\n\n", <<ctx_help>>)>>
                         ELSE <<>>)
                ELSE <<>>
        upto == head \o <<Printf("# SYNOPSIS\n\n", <<>>)>>
                \o synopsis_lines(ctx_name, or_node, 1)
                \o <<Printf("# ARGUMENTS\n\n", <<>>)>>
        st == collect_variants(
                  or_node, 1,
                  [args |-> <<>>, nalloc |-> nalloc, fail_at |-> fail_at, rc |-> 0])
        flags == classify_arguments(st.args, 1, no_flags)
    IN  IF st.rc < 0
        THEN [out |-> upto,
              err |-> <<Printf("Error: memory allocation failed\n", <<>>)>>,
              rc |-> -1, args |-> st.args, flags |-> no_flags, nalloc |-> st.nalloc]
        ELSE [out |-> upto \o arguments_help(st.args, 1)
                      \o print_see_also(ctx_name, flags),
              err |-> <<>>,
              rc |-> 0, args |-> st.args, flags |-> flags, nalloc |-> st.nalloc]

\* faulty variant: only the part before the first space is printed
print_standalone_synopsis_name_only(full_cmd) ==
    LET space == strchr_space(full_cmd)
    IN  IF space # 0
        THEN <<Printf("**%s**\n\n", <<SubSeq(full_cmd, 1, space - 1)>>)>>
        ELSE <<Printf("**%s**\n\n", <<full_cmd>>)>>

\* the bold part and the rest of a command id, lines 308-314
print_standalone_synopsis(full_cmd) ==
    LET space == strchr_space(full_cmd)
    IN  IF space # 0
        THEN <<Printf("**%.*s**%s\n\n",
                      <<SubSeq(full_cmd, 1, space - 1),
                        SubSeq(full_cmd, space, Len(full_cmd))>>)>>
        ELSE <<Printf("**%s**\n\n", <<full_cmd>>)>>

\* faulty variant: SEE ALSO is printed before SYNOPSIS
print_standalone_command_see_also_first(name, cmd_node, with_header) ==
    <<Printf("# SEE ALSO\n\n", <<>>), Printf("**grcli**(1)\n", <<>>),
      Printf("# SYNOPSIS\n\n", <<>>)>>
    \o (LET space == strchr_space(cmd_node.id)
        IN  IF space # 0
            THEN <<Printf("**%.*s**%s\n\n",
                          <<SubSeq(cmd_node.id, 1, space - 1),
                            SubSeq(cmd_node.id, space, Len(cmd_node.id))>>)>>
            ELSE <<Printf("**%s**\n\n", <<cmd_node.id>>)>>)

print_standalone_command(name, cmd_node, with_header) ==
    LET help == cmd_node.help
    IN  (IF with_header # 0
         THEN <<Printf("# %s\n\n", <<name>>)>>
              \o (IF help # NULL THEN <<Printf("%s\n\n", <<help>>)>> ELSE <<>>)
         ELSE <<>>)
        \o <<Printf("# SYNOPSIS\n\n", <<>>)>>
        \o print_standalone_synopsis(cmd_node.id)
        \o <<Printf("# SEE ALSO\n\n", <<>>), Printf("**grcli**(1)\n", <<>>)>>

\* sizeof(title)
TitleSize == 128
\* the build's version string
GROUT_VERSION == <<"0", ".", "1">>

man_title(prefix, cmd_name) ==
    LET full == prefix \o cmd_name \o <<SP, "1", SP, "\"", "g", "r", "o", "u", "t", SP>>
                \o GROUT_VERSION \o <<"\"">>
    IN  IF Len(full) < TitleSize THEN full ELSE SubSeq(full, 1, TitleSize - 1)

man_print_title_underline(title) ==
    <<Printf("=*\n\n", <<[k \in 1..Len(title) |-> "="]>>)>>

print_man_page_header(cmd_name, help_text) ==
    LET title == man_title(<<"G", "R", "C", "L", "I", "-">>, cmd_name)
    IN  <<Printf("%s\n", <<title>>)>>
        \o man_print_title_underline(title)
        \o <<Printf("# NAME\n\n", <<>>),
             Printf("**grcli-%s** -- %s\n\n",
                    <<cmd_name, IF help_text # NULL THEN help_text ELSE <<>> >>)>>

\* faulty variant: the sequence node's own id is compared, not its second child's
seq_node_matches_own_id(node, requested_cmd) ==
    /\ ec_node_get_children_count(node) >= 2
    /\ ec_node_get_child_ok(node, 1)
    /\ ec_node_get_child_ok(node, 2)
    /\ has_real_id(node.id)
    /\ streq(node.id, requested_cmd)

\* the tests of lines 333-345: the sequence node is the requested command
seq_node_matches(node, requested_cmd) ==
    /\ ec_node_get_children_count(node) >= 2
    /\ ec_node_get_child_ok(node, 1)
    /\ ec_node_get_child_ok(node, 2)
    /\ has_real_id(node.kids[2].id)
    /\ streq(node.kids[2].id, requested_cmd)

\* result: rc, found, what was printed, the entry list, the allocations made
process_seq_node(node, requested_cmd, fail_at, nalloc) ==
    IF ~seq_node_matches(node, requested_cmd)
    THEN [rc |-> 0, found |-> FALSE, out |-> <<>>, err |-> <<>>, args |-> <<>>,
          nalloc |-> nalloc]
    ELSE LET str_node == node.kids[1]
             or_node == node.kids[2]
             name == or_node.id
             d == print_command_details(name, or_node, 0, fail_at, nalloc)
             page == print_man_page_header(requested_cmd, str_node.help) \o d.out
         IN  IF d.rc < 0
             THEN [rc |-> -1, found |-> FALSE, out |-> page, err |-> d.err,
                   args |-> d.args, nalloc |-> d.nalloc]
             ELSE [rc |-> 0, found |-> TRUE, out |-> page, err |-> d.err,
                   args |-> d.args, nalloc |-> d.nalloc]

\* faulty variant: the id is compared whole
cmd_name_copy_whole(full_id) == full_id

\* name_copy after lines 366-368: the id cut at its first space
cmd_name_copy(full_id) ==
    LET space == strchr_space(full_id)
    IN  IF space # 0 THEN SubSeq(full_id, 1, space - 1) ELSE full_id

process_cmd_node(node, requested_cmd, fail_at, nalloc) ==
    LET full_id == node.id
        st == [fail_at |-> fail_at, nalloc |-> nalloc]
        none == [rc |-> 0, found |-> FALSE, out |-> <<>>, err |-> <<>>, args |-> <<>>,
                 nalloc |-> nalloc]
    IN  IF ~has_real_id(full_id) THEN none
        ELSE IF alloc_fails(st)
        THEN [none EXCEPT !.rc = -1, !.nalloc = nalloc + 1,
                          !.err = <<Printf("Error: memory allocation failed\n", <<>>)>>]
        ELSE IF ~streq(cmd_name_copy(full_id), requested_cmd)
        THEN [none EXCEPT !.nalloc = nalloc + 1]
        ELSE [none EXCEPT !.found = TRUE, !.nalloc = nalloc + 1,
                          !.out = print_man_page_header(requested_cmd, node.help)
                                  \o print_standalone_command(
                                         cmd_name_copy(full_id), node, 0)]

EXIT_SUCCESS == 0
EXIT_FAILURE == 1

(***************************************************************************)
(* State.                                                                  *)
(***************************************************************************)
VARIABLES
    pc,             \* position of the running function
    cmdlist,        \* print_man_page: the children of the top-level node
    requested_cmd,  \* print_man_page: argv[2]
    node,           \* the node a function was called on / the node documented
    ctx_name,       \* print_command_details: its ctx_name
    fail_at,        \* which allocation of the run fails (0: none)
    with_header,    \* print_command_details: its with_header
    nalloc,         \* allocations made so far
    failed,         \* the allocation that failed: "", "realloc" or "strdup"
    i,              \* the loop index of the running function, from 1
    found,          \* print_man_page: found
    args,           \* print_command_details: the entry list when collection ended
    flags,          \* print_command_details: has_iface, has_vrf, ...
    out,            \* stdout
    err,            \* stderr
    ret             \* the return value, -1 until the function has returned

vars == <<pc, cmdlist, requested_cmd, node, ctx_name, fail_at, with_header, nalloc,
                   failed, i,
          found, args, flags, out, err, ret>>

\* all sequences over S of length at most n
RECURSIVE SeqsUpTo(_, _)
SeqsUpTo(S, n) ==
    IF n = 0 THEN {<<>>}
    ELSE LET shorter == SeqsUpTo(S, n - 1)
         IN  shorter \cup {Append(q, x) : q \in shorter, x \in S}

(***************************************************************************)
(* Inputs of print_man_page.                                               *)
(***************************************************************************)
Lit(word, help) == Node("str", EC_NO_ID, help, word, <<>>)
Arg(type, id) == Node(type, id, NULL, NULL, <<>>)

OrRoute ==
    Node("or", route, NULL, NULL,
         <<Node("seq", EC_NO_ID, NULL, NULL,
                <<Lit(<<"a", "d", "d">>, help_g), Arg("dyn", IFACE)>>),
           Node("cmd", EC_NO_ID, help_h, NULL,
                <<Lit(<<"d", "e", "l">>, NULL), Arg("dyn", IFACE), Arg("uint", VRF)>>)>>)

TopNodes ==
    { Node("seq", EC_NO_ID, NULL, NULL, <<Lit(route, help_h), OrRoute>>),
      Node("seq", EC_NO_ID, NULL, NULL,
           <<Lit(route, NULL), Node("or", route, NULL, NULL, <<>>)>>),
      Node("seq", EC_NO_ID, NULL, NULL, <<Arg("uint", EC_NO_ID), OrRoute>>),
      Node("seq", EC_NO_ID, NULL, NULL, <<Lit(route, NULL), Arg("dyn", route)>>),
      Node("seq", EC_NO_ID, NULL, NULL, <<Lit(route, NULL)>>),
      Node("seq", EC_NO_ID, NULL, NULL, <<Lit(route, NULL), BadRef>>),
      Node("seq", EC_NO_ID, NULL, NULL,
           <<Lit(xroute, NULL), Node("or", xroute, NULL, NULL, <<>>)>>),
      Node("seq", route, NULL, NULL,
           <<Lit(route, NULL), Node("or", EC_NO_ID, NULL, NULL, <<>>)>>),
      Node("cmd", ping_IFACE, help_h, NULL, <<Lit(ping, NULL), Arg("dyn", IFACE)>>),
      Node("cmd", ping, NULL, NULL, <<Lit(ping, NULL)>>),
      Node("cmd", route_add, NULL, NULL, <<>>),
      Node("cmd", xroute, NULL, NULL, <<>>),
      Node("cmd", EC_NO_ID, NULL, NULL, <<Lit(route, NULL)>>),
      Node("or", route, NULL, NULL, <<>>),
      BadRef }

RequestedNames == {route, ping, ping_IFACE}

InitManPage ==
    /\ pc = "print_man_page"
    /\ cmdlist \in SeqsUpTo(TopNodes, MaxTop)
    /\ requested_cmd \in RequestedNames
    /\ fail_at \in 0..MaxAllocs
    /\ with_header = 0
    /\ node = BadRef
    /\ ctx_name = <<>>
    /\ nalloc = 0
    /\ failed = ""
    /\ i = 1
    /\ found = FALSE
    /\ args = <<>>
    /\ flags = no_flags
    /\ out = <<>>
    /\ err = <<>>
    /\ ret = -1

(***************************************************************************)
(* print_man_page, one action per turn of its loop and per return.         *)
(***************************************************************************)
InLoop ==
    /\ pc = "print_man_page"
    /\ ~found
    /\ i <= Len(cmdlist)

\* a child whose lookup fails, or that is neither a seq nor a cmd node
SkipChild ==
    /\ InLoop
    /\ \/ cmdlist[i] = BadRef
       \/ get_node_type(cmdlist[i]) \notin {"NODE_TYPE_SEQ", "NODE_TYPE_CMD"}
    /\ i' = i + 1
    /\ UNCHANGED <<pc, cmdlist, requested_cmd, node, ctx_name, fail_at, with_header, nalloc,
                   failed,
                   found, args, flags, out, err, ret>>

\* what one processed child does to the state of print_man_page
Processed(r, why) ==
    /\ out' = out \o r.out
    /\ err' = err \o r.err
    /\ args' = r.args
    /\ nalloc' = r.nalloc
    /\ found' = r.found
    /\ flags' = flags
    /\ ctx_name' = IF r.found THEN requested_cmd ELSE ctx_name
    /\ node' = IF r.found THEN cmdlist[i] ELSE node
    /\ IF r.rc < 0
       THEN /\ pc' = "done"
            /\ ret' = EXIT_FAILURE
            /\ failed' = why
            /\ i' = i
       ELSE /\ pc' = pc
            /\ ret' = ret
            /\ failed' = failed
            /\ i' = IF r.found THEN i ELSE i + 1
    /\ UNCHANGED <<cmdlist, requested_cmd, fail_at, with_header>>

ProcessSeqNode ==
    /\ InLoop
    /\ cmdlist[i] # BadRef
    /\ get_node_type(cmdlist[i]) = "NODE_TYPE_SEQ"
    /\ Processed(process_seq_node(cmdlist[i], requested_cmd, fail_at, nalloc), "realloc")

ProcessCmdNode ==
    /\ InLoop
    /\ cmdlist[i] # BadRef
    /\ get_node_type(cmdlist[i]) = "NODE_TYPE_CMD"
    /\ Processed(process_cmd_node(cmdlist[i], requested_cmd, fail_at, nalloc), "strdup")

\* faulty variant: an unknown command is not reported
UnknownCommand_Silent ==
    /\ pc = "print_man_page"
    /\ ~found
    /\ i > Len(cmdlist)
    /\ ret' = EXIT_SUCCESS
    /\ pc' = "done"
    /\ UNCHANGED <<cmdlist, requested_cmd, node, ctx_name, fail_at, with_header, nalloc,
                   failed, i,
                   found, args, flags, out, err>>

UnknownCommand ==
    /\ pc = "print_man_page"
    /\ ~found
    /\ i > Len(cmdlist)
    /\ err' = err \o <<Printf("Error: unknown command '%s'\n", <<requested_cmd>>)>>
    /\ ret' = EXIT_FAILURE
    /\ pc' = "done"
    /\ UNCHANGED <<cmdlist, requested_cmd, node, ctx_name, fail_at, with_header, nalloc,
                   failed, i,
                   found, args, flags, out>>

ReturnSuccess ==
    /\ pc = "print_man_page"
    /\ found
    /\ ret' = EXIT_SUCCESS
    /\ pc' = "done"
    /\ UNCHANGED <<cmdlist, requested_cmd, node, ctx_name, fail_at, with_header, nalloc,
                   failed, i,
                   found, args, flags, out, err>>

Next ==
    \/ SkipChild
    \/ ProcessSeqNode
    \/ ProcessCmdNode
    \/ UnknownCommand
    \/ ReturnSuccess

Spec == InitManPage /\ [][Next]_vars

(***************************************************************************)
(* Vocabulary of the properties of print_man_page.  These are stated from  *)
(* the documentation's words, not with the operators of the model.         *)
(***************************************************************************)
NoSpaceIn(s) == \A k \in 1..Len(s) : s[k] # SP

\* id, taken up to (not including) its first space, is name
HasPrefixName(id, name) ==
    /\ NoSpaceIn(name)
    /\ \/ id = name
       \/ /\ Len(id) > Len(name)
          /\ SubSeq(id, 1, Len(name)) = name
          /\ id[Len(name) + 1] = SP

RealId(id) == id # NULL /\ id # EC_NO_ID

\* the resolver's two shapes, as the code tests them
SeqShape(n, name) ==
    /\ n.type = "seq"
    /\ Len(n.kids) >= 2
    /\ n.kids[1] # BadRef
    /\ n.kids[2] # BadRef
    /\ RealId(n.kids[2].id)
    /\ n.kids[2].id = name

CmdShape(n, name) ==
    /\ n.type = "cmd"
    /\ RealId(n.id)
    /\ HasPrefixName(n.id, name)

ResolverMatches(n, name) == SeqShape(n, name) \/ CmdShape(n, name)

\* the sequence shape as documented: a Literal, then an Alternation
QualifyingSeq(n, name) ==
    /\ SeqShape(n, name)
    /\ n.kids[1].type = "str"
    /\ n.kids[2].type = "or"

NoChildMatches == \A k \in 1..Len(cmdlist) : ~ResolverMatches(cmdlist[k], requested_cmd)

Returned == pc = "done"
MatchedAt(k) == found /\ i = k
\* child k was compared with the requested name
Examined(k) == k < i \/ MatchedAt(k)

RECURSIVE Concat(_)
Concat(ss) == IF ss = <<>> THEN <<>> ELSE Head(ss) \o Concat(Tail(ss))

IsSectionMark(item) ==
    item.f \in {"%s\n", "=*\n\n", "# NAME\n\n", "# SYNOPSIS\n\n", "# ARGUMENTS\n\n",
                "# SEE ALSO\n\n"}
SectionMarks(o) == [k \in 1..Len(SelectSeq(o, IsSectionMark)) |->
                        SelectSeq(o, IsSectionMark)[k].f]

IndexOf(o, f) == IF \E k \in 1..Len(o) : o[k].f = f
                 THEN CHOOSE k \in 1..Len(o) : o[k].f = f /\ \A j \in 1..(k - 1) : o[j].f # f
                 ELSE 0

\* the items of the section headed f, up to the next "# ..." heading
Section(o, f) ==
    LET s == IndexOf(o, f)
        heads == {"# NAME\n\n", "# SYNOPSIS\n\n", "# ARGUMENTS\n\n", "# SEE ALSO\n\n",
                  "# OPTIONS\n\n", "# ENVIRONMENT\n\n", "# REPORTING BUGS\n\n"}
        later == {k \in (s + 1)..Len(o) : o[k].f \in heads}
        e == IF later = {} THEN Len(o) + 1
             ELSE CHOOSE k \in later : \A j \in later : k <= j
    IN  IF s = 0 THEN <<>> ELSE SubSeq(o, s + 1, e - 1)

IsUsageLine(item) == item.f = "**%s** "
CountValid(kids) == Cardinality({k \in 1..Len(kids) : kids[k] # BadRef})

(***************************************************************************)
(* C1 (as amended).  print_man_page returns failure exactly when no        *)
(* top-level child matches the name or an allocation fails, be it the      *)
(* realloc of the argument list or the strdup of a Command node's id, and  *)
(* success otherwise; every failure writes a diagnostic to stderr, success *)
(* writes none, and when no child matches nothing is written to stdout.    *)
(***************************************************************************)
C1_FailureExactly ==
    Returned =>
        /\ ret \in {EXIT_SUCCESS, EXIT_FAILURE}
        /\ (ret = EXIT_FAILURE) <=> (NoChildMatches \/ (fail_at # 0 /\ nalloc >= fail_at))
        /\ (ret = EXIT_FAILURE) => Len(err) = 1
        /\ (ret = EXIT_SUCCESS) => err = <<>>
        /\ NoChildMatches => out = <<>>

\* a realloc failure after the header and the SYNOPSIS were printed
C1_Witness ==
    /\ Returned
    /\ ret = EXIT_FAILURE
    /\ failed = "realloc"
    /\ ~NoChildMatches
    /\ out # <<>>

(***************************************************************************)
(* C1 as stated: failure exactly when no child matches or an allocation    *)
(* fails while collecting arguments.                                       *)
(***************************************************************************)
C1_AsStated ==
    Returned => ((ret = EXIT_FAILURE) <=> (NoChildMatches \/ failed = "realloc"))

(***************************************************************************)
(* C2.  A top-level Command node with a real id that the resolver compared *)
(* with the requested name is matched iff the name equals the id cut at    *)
(* its first space; a request for the full multi-word id "ping IFACE"      *)
(* does not match the node with that id.                                   *)
(***************************************************************************)
C2_CmdMatchIffPrefix ==
    \A k \in 1..Len(cmdlist) :
        (cmdlist[k].type = "cmd" /\ RealId(cmdlist[k].id) /\ Examined(k)) =>
            /\ MatchedAt(k) <=> HasPrefixName(cmdlist[k].id, requested_cmd)
            /\ (cmdlist[k].id = ping_IFACE /\ requested_cmd = ping_IFACE) => ~MatchedAt(k)

C2_Witness ==
    /\ Returned
    /\ found
    /\ cmdlist[i].type = "cmd"
    /\ cmdlist[i].id = ping_IFACE
    /\ requested_cmd = ping

(***************************************************************************)
(* C3 (as amended).  When no allocation fails, the first top-level node    *)
(* the resolver matches is the one documented: a Sequence (Literal,        *)
(* Alternation with id = name) is documented, its valid children being the *)
(* variants of the page, iff no earlier top-level node matches; a node     *)
(* whose id only contains the name does not match.                         *)
(***************************************************************************)
C3_FirstMatchDocumented ==
    (Returned /\ failed = "") =>
        \A k \in 1..Len(cmdlist) :
            (/\ QualifyingSeq(cmdlist[k], requested_cmd)
             /\ \A j \in 1..(k - 1) : ~ResolverMatches(cmdlist[j], requested_cmd)) =>
                /\ MatchedAt(k)
                /\ ret = EXIT_SUCCESS
                /\ Len(SelectSeq(out, IsUsageLine)) = CountValid(cmdlist[k].kids[2].kids)

C3_Witness ==
    /\ Returned
    /\ found
    /\ i = 2
    /\ QualifyingSeq(cmdlist[2], requested_cmd)
    /\ cmdlist[1].type = "cmd"
    /\ cmdlist[1].id = xroute
    /\ Len(SelectSeq(out, IsUsageLine)) = 2

(***************************************************************************)
(* C3 as stated: whenever the forest holds such a Sequence, its            *)
(* Alternation is the one documented, wherever the other nodes stand       *)
(* (here in forests where no other Sequence carries the name).             *)
(***************************************************************************)
C3_AsStated ==
    (Returned /\ failed = "") =>
        \A k \in 1..Len(cmdlist) :
            (/\ QualifyingSeq(cmdlist[k], requested_cmd)
             /\ \A j \in 1..Len(cmdlist) :
                    j # k => ~SeqShape(cmdlist[j], requested_cmd)) =>
                /\ found
                /\ cmdlist[i].type = "seq"
                /\ cmdlist[i].kids[2] = cmdlist[k].kids[2]

(***************************************************************************)
(* C6 (as amended).  For a command-shape result the SYNOPSIS section is a  *)
(* single line: the command name in bold, followed by the rest of the      *)
(* node's id from its first space on (nothing when the id has no space).   *)
(***************************************************************************)
C6_SynopsisNameThenRest ==
    (found /\ cmdlist[i].type = "cmd") =>
        LET syn == Section(out, "# SYNOPSIS\n\n")
        IN  /\ Len(syn) = 1
            /\ syn[1].a[1] = requested_cmd
            /\ Concat(syn[1].a) = cmdlist[i].id
            /\ Len(syn[1].a) = IF NoSpaceIn(cmdlist[i].id) THEN 1 ELSE 2

C6_Witness ==
    /\ found
    /\ cmdlist[i].type = "cmd"
    /\ cmdlist[i].id = ping_IFACE
    /\ Section(out, "# SYNOPSIS\n\n") = <<Printf("**%.*s**%s\n\n", <<ping, <<SP>> \o IFACE>>)>>

(***************************************************************************)
(* C6 as stated: the SYNOPSIS line holds only the command name.            *)
(***************************************************************************)
C6_AsStated ==
    (found /\ cmdlist[i].type = "cmd") =>
        LET syn == Section(out, "# SYNOPSIS\n\n")
        IN  /\ Len(syn) = 1
            /\ Concat(syn[1].a) = requested_cmd

C8_SeqMatchedOnlyIfLiteralThenAlternation ==
    \A k \in 1..Len(cmdlist) :
        (MatchedAt(k) /\ cmdlist[k].type = "seq") =>
            QualifyingSeq(cmdlist[k], requested_cmd)

(***************************************************************************)
(* print_command_details on its own: the Alternation, the command name and *)
(* the failing allocation are the inputs.                                  *)
(***************************************************************************)
Variants ==
    { Arg("dyn", IFACE), Arg("re", NAME), Arg("uint", VRF), Arg("dyn", NH),
      Arg("int", NH_ID), Arg("dyn", SEGLIST), Arg("dyn", ADDR), Arg("re", IP),
      Arg("dyn", DEST),
      Node("seq", EC_NO_ID, NULL, NULL,
           <<Lit(<<"a", "d", "d">>, help_g), Arg("dyn", IFACE), Arg("uint", VRF),
             Arg("uint", COUNT)>>),
      Node("cmd", EC_NO_ID, help_h, NULL,
           <<Arg("dyn", NH),
             Node("option", EC_NO_ID, NULL, NULL, <<Arg("dyn", ADDR), Arg("int", NH)>>)>>),
      Node("re", IP, help_h, NULL, <<Arg("dyn", DEST), BadRef>>),
      Node("str", VRF, NULL, VRF,
           <<Arg("int", EC_NO_ID), Arg("int", NULL), Arg("uint", IFACE)>>),
      BadRef }

CtxNames == {interface, address, nexthop, route, ping}

InitDetails ==
    /\ pc = "print_command_details"
    /\ node \in {Node("or", route, NULL, NULL, kids) : kids \in SeqsUpTo(Variants, MaxVariants)}
    /\ ctx_name \in CtxNames
    /\ fail_at \in 0..MaxAllocs
    /\ with_header = 0
    /\ cmdlist = <<>>
    /\ requested_cmd = <<>>
    /\ nalloc = 0
    /\ failed = ""
    /\ i = 1
    /\ found = FALSE
    /\ args = <<>>
    /\ flags = no_flags
    /\ out = <<>>
    /\ err = <<>>
    /\ ret = -1

PrintCommandDetails ==
    /\ pc = "print_command_details"
    /\ LET d == print_command_details(ctx_name, node, with_header, fail_at, nalloc)
       IN  /\ out' = d.out
           /\ err' = d.err
           /\ ret' = d.rc
           /\ args' = d.args
           /\ flags' = d.flags
           /\ nalloc' = d.nalloc
           /\ failed' = IF d.rc < 0 THEN "realloc" ELSE ""
    /\ pc' = "done"
    /\ UNCHANGED <<cmdlist, requested_cmd, node, ctx_name, fail_at, with_header, i, found>>

NextDetails == PrintCommandDetails

SpecDetails == InitDetails /\ [][NextDetails]_vars

(***************************************************************************)
(* print_node_synopsis on its own.                                         *)
(***************************************************************************)
SynopsisKids ==
    { Lit(<<"a">>, NULL), Lit(NULL, help_h), Arg("uint", IFACE), Arg("int", EC_NO_ID),
      Arg("dyn", NULL), Arg("re", VRF), Arg("bogus", VRF),
      Node("or", EC_NO_ID, NULL, NULL, <<>>),
      Node("or", EC_NO_ID, NULL, NULL, <<Lit(<<"b">>, NULL), BadRef, Lit(<<"c">>, NULL)>>),
      Node("subset", EC_NO_ID, NULL, NULL, <<Lit(<<"d">>, NULL), Arg("dyn", NAME)>>),
      BadRef }

SynopsisTypes == {"or", "seq", "cmd", "option", "many", "subset", "bogus"}

InitSynopsis ==
    /\ pc = "print_node_synopsis"
    /\ node \in {Node(t, EC_NO_ID, NULL, NULL, kids) :
                     t \in SynopsisTypes, kids \in SeqsUpTo(SynopsisKids, MaxKids)}
    /\ ctx_name = <<>>
    /\ fail_at = 0
    /\ with_header = 0
    /\ cmdlist = <<>>
    /\ requested_cmd = <<>>
    /\ nalloc = 0
    /\ failed = ""
    /\ i = 1
    /\ found = FALSE
    /\ args = <<>>
    /\ flags = no_flags
    /\ out = <<>>
    /\ err = <<>>
    /\ ret = -1

PrintNodeSynopsis ==
    /\ pc = "print_node_synopsis"
    /\ out' = print_node_synopsis(node, 0)
    /\ pc' = "done"
    /\ UNCHANGED <<cmdlist, requested_cmd, node, ctx_name, fail_at, with_header, nalloc,
                   failed, i, found, args, flags, err, ret>>

NextSynopsis == PrintNodeSynopsis

SpecSynopsis == InitSynopsis /\ [][NextSynopsis]_vars

(***************************************************************************)
(* man_main.c: the global-options page.                                    *)
(***************************************************************************)
\* the flag names of an "or" node, lines 87-104 and 115-134
RECURSIVE option_flag_names(_, _, _, _)
option_flag_names(or_node, k, first, mode) ==
    IF k > ec_node_get_children_count(or_node) THEN <<>>
    ELSE IF ~ec_node_get_child_ok(or_node, k)
    THEN option_flag_names(or_node, k + 1, first, mode)
    ELSE LET desc == or_node.kids[k].desc
         IN  IF desc = NULL THEN option_flag_names(or_node, k + 1, first, mode)
             ELSE IF mode = "SYNOPSIS_MODE" /\ ~first
             THEN option_flag_names(or_node, k + 1, first, mode)
             ELSE <<Printf("%s**%s**",
                           <<IF mode = "SYNOPSIS_MODE" \/ first THEN <<>> ELSE <<",", SP>>,
                             desc>>)>>
                  \o option_flag_names(or_node, k + 1, FALSE, mode)

print_option_syntax(cmd_node, mode) ==
    IF ~ec_node_get_child_ok(cmd_node, 1) THEN <<>>
    ELSE LET child == cmd_node.kids[1]
             child_type == get_node_type(child)
             open == IF mode = "SYNOPSIS_MODE" THEN <<Printf("[", <<>>)>>
                     ELSE <<Printf("#### ", <<>>)>>
             names == IF child_type = "NODE_TYPE_OR"
                      THEN option_flag_names(child, 1, TRUE, mode)
                      ELSE IF /\ child_type = "NODE_TYPE_SEQ"
                              /\ ec_node_get_child_ok(child, 1)
                              /\ get_node_type(child.kids[1]) = "NODE_TYPE_OR"
                      THEN option_flag_names(child.kids[1], 1, TRUE, mode)
                      ELSE <<>>
             arg_name == IF /\ child_type = "NODE_TYPE_SEQ"
                            /\ ec_node_get_child_ok(child, 2)
                            /\ has_real_id(child.kids[2].id)
                         THEN child.kids[2].id
                         ELSE NULL
         IN  IF child_type = "NODE_TYPE_SEQ" /\ ec_node_get_children_count(child) < 2
             THEN open
             ELSE open \o names
                  \o (IF arg_name # NULL
                      THEN <<Printf(" _", <<>>),
                             Printf("putchar(toupper(*p))", <<toupper_str(arg_name)>>),
                             Printf("_", <<>>)>>
                      ELSE <<>>)
                  \o (IF mode = "SYNOPSIS_MODE" THEN <<Printf("]\n", <<>>)>>
                      ELSE <<Printf("\n\n", <<>>)>>
                           \o (IF cmd_node.help # NULL
                               THEN <<Printf("%s\n\n", <<cmd_node.help>>)>>
                               ELSE <<>>))

\* the build's default socket path
GR_DEFAULT_SOCK_PATH == <<"/", "r", "u", "n", "/", "g", "r", "o", "u", "t">>

(***************************************************************************)
(* Inputs of print_main_man_page: the tree of grcli_options_node().        *)
(***************************************************************************)
FlagOr == Node("or", EC_NO_ID, NULL, NULL,
               <<Lit(<<"-", "s">>, NULL), BadRef, Lit(<<"-", "-", "s", "o", "c", "k">>, NULL)>>)

OptionChildren ==
    { FlagOr,
      Node("seq", EC_NO_ID, NULL, NULL, <<FlagOr, Arg("dyn", <<"s", "o", "c", "k">>)>>),
      Node("seq", EC_NO_ID, NULL, NULL, <<Lit(<<"-", "x">>, NULL), Arg("dyn", EC_NO_ID)>>),
      Node("seq", EC_NO_ID, NULL, NULL, <<FlagOr>>),
      Lit(<<"-", "e">>, NULL) }

OptionNodes ==
    {Node("cmd", EC_NO_ID, h, NULL, <<c>>) : h \in {NULL, help_h}, c \in OptionChildren}
    \cup {Node("cmd", EC_NO_ID, help_h, NULL, <<>>), BadRef}

InitMain ==
    /\ pc = "print_main_man_page"
    /\ node \in {Node("or", EC_NO_ID, NULL, NULL, kids) :
                     kids \in SeqsUpTo(OptionNodes, MaxOptions)}
    /\ ctx_name = <<>>
    /\ fail_at = 0
    /\ with_header = 0
    /\ cmdlist = <<>>
    /\ requested_cmd = <<>>
    /\ nalloc = 0
    /\ failed = ""
    /\ i = 1
    /\ found = FALSE
    /\ args = <<>>
    /\ flags = no_flags
    /\ out = <<>>
    /\ err = <<>>
    /\ ret = -1

MainUnchanged ==
    UNCHANGED <<cmdlist, requested_cmd, node, ctx_name, fail_at, with_header, nalloc,
                failed, found, args, flags, err>>

\* lines 191-196 and 166-167: title, NAME, and the head of SYNOPSIS
MainHeader ==
    /\ pc = "print_main_man_page"
    /\ LET title == man_title(<<"G", "R", "C", "L", "I">>, <<>>)
       IN  out' = <<Printf("%s\n", <<title>>)>>
                  \o man_print_title_underline(title)
                  \o <<Printf("# NAME\n\n", <<>>),
                       Printf("**grcli** -- grout command line interface\n\n", <<>>),
                       Printf("# SYNOPSIS\n\n", <<>>),
                       Printf("**grcli**\n", <<>>)>>
    /\ pc' = "synopsis_loop"
    /\ i' = 1
    /\ ret' = ret
    /\ MainUnchanged

\* one turn of the loop of lines 169-175
SynopsisOption ==
    /\ pc = "synopsis_loop"
    /\ i <= ec_node_get_children_count(node)
    /\ out' = out \o (IF ec_node_get_child_ok(node, i)
                      THEN print_option_syntax(node.kids[i], "SYNOPSIS_MODE")
                      ELSE <<>>)
    /\ i' = i + 1
    /\ UNCHANGED <<pc, ret>>
    /\ MainUnchanged

\* lines 176-178
SynopsisEnd ==
    /\ pc = "synopsis_loop"
    /\ i > ec_node_get_children_count(node)
    /\ out' = out \o <<Printf("...\n\n", <<>>), Printf("# OPTIONS\n\n", <<>>)>>
    /\ pc' = "options_loop"
    /\ i' = 1
    /\ ret' = ret
    /\ MainUnchanged

\* one turn of the loop of lines 179-185
OptionEntry ==
    /\ pc = "options_loop"
    /\ i <= ec_node_get_children_count(node)
    /\ out' = out \o (IF ec_node_get_child_ok(node, i)
                      THEN print_option_syntax(node.kids[i], "OPTION_MODE")
                      ELSE <<>>)
    /\ i' = i + 1
    /\ UNCHANGED <<pc, ret>>
    /\ MainUnchanged

\* lines 200-213
MainFooter ==
    /\ pc = "options_loop"
    /\ i > ec_node_get_children_count(node)
    /\ out' = out \o <<Printf("# ENVIRONMENT\n\n", <<>>),
                       Printf("#### **DPRC**\n\n", <<>>),
                       Printf("%s\n\n", <<<<"E", "N", "V", "_", "D", "P", "R", "C">>>>),
                       Printf("#### **GROUT_SOCK_PATH**\n\n", <<>>),
                       Printf("Path to the control plane API socket. If not set, defaults to _%s_.\n\n",
                              <<GR_DEFAULT_SOCK_PATH>>),
                       Printf("# SEE ALSO\n\n", <<>>),
                       Printf("**grout**(8)\n\n", <<>>),
                       Printf("# REPORTING BUGS\n\n", <<>>),
                       Printf("%s\n", <<<<"R", "E", "P", "O", "R", "T", "I", "N", "G">>>>)>>
    /\ ret' = 0
    /\ pc' = "done"
    /\ i' = i
    /\ MainUnchanged

NextMain ==
    \/ MainHeader
    \/ SynopsisOption
    \/ SynopsisEnd
    \/ OptionEntry
    \/ MainFooter

SpecMain == InitMain /\ [][NextMain]_vars

(***************************************************************************)
(* Vocabulary of the properties of the collector and the cross-references. *)
(***************************************************************************)
\* the nodes of a subtree in pre-order, unreadable children left out
RECURSIVE PreOrder(_)
RECURSIVE PreOrderKids(_)
PreOrderKids(kids) ==
    IF kids = <<>> THEN <<>>
    ELSE (IF Head(kids) = BadRef THEN <<>> ELSE PreOrder(Head(kids)))
         \o PreOrderKids(Tail(kids))

PreOrder(n) == <<n>> \o PreOrderKids(n.kids)

Collectible(n) == RealId(n.id) /\ n.type \in {"uint", "int", "dyn", "re"}

\* the nodes of q whose id no earlier node of q has
FirstOfEachId(q) ==
    LET keep == {k \in 1..Len(q) : \A j \in 1..(k - 1) : q[j].id # q[k].id}
        nth(m) == CHOOSE k \in keep : Cardinality({j \in keep : j < k}) = m - 1
    IN  [m \in 1..Cardinality(keep) |-> q[nth(m)]]

ArgIds == {args[k].id : k \in 1..Len(args)}
SeeAlso == Section(out, "# SEE ALSO\n\n")
Refers(page) == \E k \in 1..Len(SeeAlso) : SeeAlso[k] = Printf(page, <<>>)

(***************************************************************************)
(* C4.  The list built by collect_arguments over all the variants of the   *)
(* Alternation is the pre-order sequence of the nodes with a real id and a *)
(* type among uint, int, dyn, re, keeping the first node of each id; no    *)
(* two entries share an id, and the children of a collected node are       *)
(* visited.                                                                *)
(***************************************************************************)
C4_CollectedIsFirstOccurrencePreOrder ==
    Returned =>
        /\ \A k, j \in 1..Len(args) : args[k].id = args[j].id => k = j
        /\ ret = 0 =>
               /\ [k \in 1..Len(args) |-> args[k].node]
                      = FirstOfEachId(SelectSeq(PreOrderKids(node.kids), Collectible))
               /\ \A k \in 1..Len(args) : args[k].id = args[k].node.id

\* IP is collected once, from the first variant (which has a child), its
\* child DEST after it, and the second variant, IP again, adds nothing
C4_Witness ==
    /\ Returned
    /\ ret = 0
    /\ Len(node.kids) = 2
    /\ node.kids[2] = Arg("re", IP)
    /\ Len(args) = 2
    /\ args[1].id = IP
    /\ args[1].node.kids # <<>>
    /\ args[2].id = DEST

(***************************************************************************)
(* C5.  SEE ALSO always names the shell's page grcli(1), and names the     *)
(* interface page (ids IFACE, NAME), the address page (ADDR, IP, DEST),    *)
(* the nexthop page (NH, NH_ID, SEGLIST) and the route page (VRF) iff one  *)
(* of the ids was collected and the command is not that page's own.        *)
(***************************************************************************)
C5_SeeAlsoSiblings ==
    (Returned /\ ret = 0) =>
        /\ Len(SeeAlso) >= 2
        /\ SeeAlso[1] = Printf("**grcli**(1)", <<>>)
        /\ (flags.has_iface = 1) <=> (ArgIds \cap {IFACE, NAME} # {})
        /\ (flags.has_address = 1) <=> (ArgIds \cap {ADDR, IP, DEST} # {})
        /\ (flags.has_nexthop = 1) <=> (ArgIds \cap {NH, NH_ID, SEGLIST} # {})
        /\ (flags.has_vrf = 1) <=> (VRF \in ArgIds)
        /\ Refers(", **grcli-interface**(1)")
               <=> (ArgIds \cap {IFACE, NAME} # {} /\ ctx_name # interface)
        /\ Refers(", **grcli-address**(1)")
               <=> (ArgIds \cap {ADDR, IP, DEST} # {} /\ ctx_name # address)
        /\ Refers(", **grcli-nexthop**(1)")
               <=> (ArgIds \cap {NH, NH_ID, SEGLIST} # {} /\ ctx_name # nexthop)
        /\ Refers(", **grcli-route**(1)") <=> (VRF \in ArgIds /\ ctx_name # route)

C5_Witness ==
    /\ Returned
    /\ ret = 0
    /\ ctx_name = address
    /\ {IFACE, VRF, ADDR} \subseteq ArgIds
    /\ flags.has_address = 1
    /\ Refers(", **grcli-interface**(1)")
    /\ Refers(", **grcli-route**(1)")
    /\ ~Refers(", **grcli-address**(1)")

(***************************************************************************)
(* C9 as stated.  An Alternation with no child prints nothing; with        *)
(* children it prints " (", the synopses of the children whose lookup      *)
(* succeeds with " |" between two of them, and " )".                       *)
(***************************************************************************)
RECURSIVE JoinWithBar(_)
JoinWithBar(kids) ==
    IF kids = <<>> THEN <<>>
    ELSE print_node_synopsis(Head(kids), 1)
         \o (IF Tail(kids) = <<>> THEN <<>> ELSE <<Printf(" |", <<>>)>>)
         \o JoinWithBar(Tail(kids))

IsReadable(n) == n # BadRef

C9_AlternationSynopsis ==
    (Returned /\ node.type = "or") =>
        out = IF Len(node.kids) = 0 THEN <<>>
              ELSE <<Printf(" (", <<>>)>> \o JoinWithBar(SelectSeq(node.kids, IsReadable))
                   \o <<Printf(" )", <<>>)>>

(***************************************************************************)
(* C10 as stated.  For an options tree whose option nodes all have a first *)
(* child, the page has one SYNOPSIS bracket line per option node, opened   *)
(* by "[" and closed by "]" and a newline, and one complete OPTIONS entry  *)
(* per option node: the heading line, then the help text when there is     *)
(* one.                                                                    *)
(***************************************************************************)
IsBracket(item) == item.f \in {"[", "]\n"}
IsEntryMark(item) == item.f \in {"#### ", "\n\n", "%s\n\n"}
Marks(o, Test(_)) == [k \in 1..Len(SelectSeq(o, Test)) |-> SelectSeq(o, Test)[k].f]

RECURSIVE ExpectedBrackets(_)
ExpectedBrackets(opts) ==
    IF opts = <<>> THEN <<>> ELSE <<"[", "]\n">> \o ExpectedBrackets(Tail(opts))

RECURSIVE ExpectedEntries(_)
ExpectedEntries(opts) ==
    IF opts = <<>> THEN <<>>
    ELSE <<"#### ", "\n\n">>
         \o (IF Head(opts).help # NULL THEN <<"%s\n\n">> ELSE <<>>)
         \o ExpectedEntries(Tail(opts))

C10_OneLineAndOneEntryPerOption ==
    (/\ Returned
     /\ \A k \in 1..Len(node.kids) :
            node.kids[k] # BadRef =>
                (Len(node.kids[k].kids) >= 1 /\ node.kids[k].kids[1] # BadRef)) =>
        /\ Marks(Section(out, "# SYNOPSIS\n\n"), IsBracket)
               = ExpectedBrackets(SelectSeq(node.kids, IsReadable))
        /\ Marks(Section(out, "# OPTIONS\n\n"), IsEntryMark)
               = ExpectedEntries(SelectSeq(node.kids, IsReadable))

=============================================================================
